---- MODULE Spec2Model ----
(***************************************************************************)
(* Model of build-index/tagstore/store.go: the two-level tag store         *)
(* (on-disk file store + remote backend + write-back manager).             *)
(*                                                                         *)
(* Every call a handler makes on a collaborator (FileStore, backend        *)
(* client, write-back manager) is one atomic step of the calling process;  *)
(* the handlers themselves take no lock, so steps of different callers     *)
(* interleave freely.                                                      *)
(***************************************************************************)
EXTENDS Naturals, Sequences, FiniteSets, Bags, TLC

\* ------------------------------------------------------------------ bounds
MaxCalls == 2          \* total number of Put/Get calls started in a run
HexLen == 2            \* length of the hex part of a digest (stands for 64)

Procs == {"p1", "p2"}  \* concurrent callers
Tags == {"latest"}     \* tag names used by the callers
Delays == {30}             \* writeBackDelay values used by the callers
HexChars == {"a", "b"}

\* ------------------------------------------------------------------ errors
\* Go error values.  Sentinels are compared by identity; fmt.Errorf makes a
\* fresh value that is equal to no sentinel.
Nil == [kind |-> "nil", text |-> <<>>]
ErrTagNotFound == [kind |-> "sentinel", text |-> <<"tag not found">>]
ErrBlobNotFound == [kind |-> "sentinel", text |-> <<"blob not found">>]
ENOENT == [kind |-> "os", text |-> <<"no such file or directory">>]
EEXIST == [kind |-> "os", text |-> <<"file exists">>]
EIO == [kind |-> "os", text |-> <<"input/output error">>]
ErrNoClient == [kind |-> "backend", text |-> <<"no matches for namespace">>]
ErrBackendDown == [kind |-> "backend", text |-> <<"backend unavailable">>]
ErrQueueFull == [kind |-> "retry", text |-> <<"task rejected">>]

Errorf(ctx, err) == [kind |-> "fmt", text |-> <<ctx>> \o err.text]
IsExist(err) == err = EEXIST
IsNotExist(err) == err = ENOENT

\* ----------------------------------------------------------------- digests
ZeroDigest == [algo |-> "", hex |-> <<>>]
SHA256Digest(hex) == [algo |-> "sha256", hex |-> hex]
DigestOf(c) == SHA256Digest([i \in 1..HexLen |-> c])
Digests == {DigestOf(c) : c \in HexChars}

\* d.String(): the canonical "algo:hex" encoding, as a sequence of tokens.
DigestString(d) == <<d.algo, ":">> \o d.hex

ParseSHA256Digest(str) ==
    IF /\ Len(str) = HexLen + 2
       /\ str[1] = "sha256"
       /\ str[2] = ":"
       /\ \A i \in 3..Len(str) : str[i] \in HexChars
    THEN [d |-> SHA256Digest(SubSeq(str, 3, Len(str))), err |-> Nil]
    ELSE [d |-> ZeroDigest,
          err |-> [kind |-> "digest", text |-> <<"invalid sha256 digest">>]]

\* Non-digest bytes: a digest string cut short.
Truncated == <<"sha256", ":">>

\* ------------------------------------------------------------------- files
NoFile == [exists |-> FALSE, data |-> <<>>]
File(data) == [exists |-> TRUE, data |-> data]
InitialFiles == {NoFile, File(Truncated)} \cup {File(DigestString(d)) : d \in Digests}

NewTaskWithDelay(src, dst, delay) == [src |-> src, dst |-> dst, delay |-> delay]
NoTask == [src |-> "", dst |-> "", delay |-> 0]

VARIABLES
    local,      \* FileStore cache files: tag -> file
    persist,    \* FileStore persist metadata: tag -> BOOLEAN
    backend,    \* remote storage: tag -> blob
    queue,      \* write-back manager: bag of accepted, not yet executed tasks
    pc,         \* position of each caller inside Put / Get
    cur,        \* the call each caller is executing
    hist,       \* per caller, the calls that have returned, in order
    local0,     \* cache files when the store was constructed
    backend0,   \* remote storage when the store was constructed
    added,      \* tag -> number of tasks the write-back manager accepted
    ncalls      \* number of calls started so far

vars == <<local, persist, backend, queue, pc, cur, hist, local0, backend0, added, ncalls>>

\* A call: its arguments and results, and what each collaborator answered
\* it (n* count the calls made on that collaborator, pre is the cache file
\* found by the first FileStore access, task is the task handed to the
\* write-back manager, afterPut tells whether a Put on the tag had returned
\* no error before the call started).
NoCall ==
    [op |-> "none", tag |-> "", d |-> ZeroDigest, delay |-> 0,
     err |-> Nil, res |-> ZeroDigest, pre |-> NoFile,
     createErr |-> Nil, metaErr |-> Nil, changed |-> FALSE, addErr |-> Nil,
     openErr |-> Nil, copyErr |-> Nil, clientErr |-> Nil, dlErr |-> Nil,
     dlData |-> <<>>, task |-> NoTask, afterPut |-> FALSE,
     nCreate |-> 0, nMeta |-> 0, nAdd |-> 0, nOpen |-> 0, nBackend |-> 0]

\* ------------------------------------------------------------ collaborators
\* FileStore.CreateCacheFile: atomic create-if-absent.
CreateCacheFile(fs, name, data, fault) ==
    IF fault THEN [err |-> EIO, fs |-> fs]
    ELSE IF fs[name].exists THEN [err |-> EEXIST, fs |-> fs]
    ELSE [err |-> Nil, fs |-> [fs EXCEPT ![name] = File(data)]]

\* FileStore.SetCacheFileMetadata(name, persist=true) -> (changed, error).
SetCacheFileMetadata(fs, md, name, fault) ==
    IF fault THEN [changed |-> FALSE, err |-> EIO, md |-> md]
    ELSE IF ~fs[name].exists THEN [changed |-> FALSE, err |-> ENOENT, md |-> md]
    ELSE [changed |-> ~md[name], err |-> Nil, md |-> [md EXCEPT ![name] = TRUE]]

\* FileStore.GetCacheFileReader followed by io.Copy of the reader.
GetCacheFileReader(fs, name, fault) ==
    IF ~fs[name].exists THEN [err |-> ENOENT, copyErr |-> Nil, data |-> <<>>]
    ELSE IF fault = "open" THEN [err |-> EIO, copyErr |-> Nil, data |-> <<>>]
    ELSE IF fault = "copy" THEN [err |-> Nil, copyErr |-> EIO, data |-> <<>>]
    ELSE [err |-> Nil, copyErr |-> Nil, data |-> fs[name].data]

\* backend.Manager.GetClient followed by Client.Download.
Download(be, name, fault) ==
    IF fault = "client" THEN [clientErr |-> ErrNoClient, err |-> Nil, data |-> <<>>]
    ELSE IF fault = "download" THEN [clientErr |-> Nil, err |-> ErrBackendDown, data |-> <<>>]
    ELSE IF ~be[name].exists THEN [clientErr |-> Nil, err |-> ErrBlobNotFound, data |-> <<>>]
    ELSE [clientErr |-> Nil, err |-> Nil, data |-> be[name].data]

\* persistedretry.Manager.Add.
Add(q, task, fault) ==
    IF fault THEN [err |-> ErrQueueFull, q |-> q]
    ELSE [err |-> Nil, q |-> q (+) SetToBag({task})]

\* ------------------------------------------------------------- tagStore code
\* writeTagToDisk writing the bare hex of the digest instead of d.String().
writeTagToDiskHex(fs, tag, d, fault) ==
    LET r == CreateCacheFile(fs, tag, d.hex, fault)
    IN  [err |-> IF r.err # Nil /\ ~IsExist(r.err) THEN r.err ELSE Nil,
         fs |-> r.fs,
         raw |-> r.err]

\* writeTagToDisk without the os.IsExist exemption.
writeTagToDiskNoExistCheck(fs, tag, d, fault) ==
    LET r == CreateCacheFile(fs, tag, DigestString(d), fault)
    IN  [err |-> r.err,
         fs |-> r.fs,
         raw |-> r.err]

\* writeTagToDisk replacing the content of a cache file that already exists.
writeTagToDiskOverwrite(fs, tag, d, fault) ==
    LET r == CreateCacheFile(fs, tag, DigestString(d), fault)
    IN  [err |-> IF r.err # Nil /\ ~IsExist(r.err) THEN r.err ELSE Nil,
         fs |-> IF IsExist(r.err)
                THEN [fs EXCEPT ![tag] = File(DigestString(d))]
                ELSE r.fs,
         raw |-> r.err]

\* writeTagToDisk: create the cache file, already-exists is success
\* (raw is what CreateCacheFile answered).
writeTagToDisk(fs, tag, d, fault) ==
    LET r == CreateCacheFile(fs, tag, DigestString(d), fault)
    IN  [err |-> IF r.err # Nil /\ ~IsExist(r.err) THEN r.err ELSE Nil,
         fs |-> r.fs,
         raw |-> r.err]

\* resolveFromDisk returning its zero-valued result instead of the parsed digest.
resolveFromDiskShadowed(r) ==
    IF r.err # Nil
    THEN IF IsNotExist(r.err)
         THEN [d |-> ZeroDigest, err |-> ErrTagNotFound]
         ELSE [d |-> ZeroDigest, err |-> Errorf("fs", r.err)]
    ELSE IF r.copyErr # Nil
    THEN [d |-> ZeroDigest, err |-> Errorf("copy from fs", r.copyErr)]
    ELSE LET p == ParseSHA256Digest(r.data)
         IN  IF p.err # Nil
             THEN [d |-> ZeroDigest, err |-> Errorf("parse fs digest", p.err)]
             ELSE [d |-> ZeroDigest, err |-> Nil]

\* resolveFromDisk treating every open error as not-found.
resolveFromDiskAnyOpenErrNotFound(r) ==
    IF r.err # Nil
    THEN [d |-> ZeroDigest, err |-> ErrTagNotFound]
    ELSE IF r.copyErr # Nil
    THEN [d |-> ZeroDigest, err |-> Errorf("copy from fs", r.copyErr)]
    ELSE LET p == ParseSHA256Digest(r.data)
         IN  IF p.err # Nil
             THEN [d |-> ZeroDigest, err |-> Errorf("parse fs digest", p.err)]
             ELSE [d |-> p.d, err |-> Nil]

\* resolveFromDisk treating a malformed file as not-found.
resolveFromDiskParseErrNotFound(r) ==
    IF r.err # Nil
    THEN IF IsNotExist(r.err)
         THEN [d |-> ZeroDigest, err |-> ErrTagNotFound]
         ELSE [d |-> ZeroDigest, err |-> Errorf("fs", r.err)]
    ELSE IF r.copyErr # Nil
    THEN [d |-> ZeroDigest, err |-> Errorf("copy from fs", r.copyErr)]
    ELSE LET p == ParseSHA256Digest(r.data)
         IN  IF p.err # Nil
             THEN [d |-> ZeroDigest, err |-> ErrTagNotFound]
             ELSE [d |-> p.d, err |-> Nil]

\* resolveFromDisk, given what the FileStore answered.
resolveFromDisk(r) ==
    IF r.err # Nil
    THEN IF IsNotExist(r.err)
         THEN [d |-> ZeroDigest, err |-> ErrTagNotFound]
         ELSE [d |-> ZeroDigest, err |-> Errorf("fs", r.err)]
    ELSE IF r.copyErr # Nil
    THEN [d |-> ZeroDigest, err |-> Errorf("copy from fs", r.copyErr)]
    ELSE LET p == ParseSHA256Digest(r.data)
         IN  IF p.err # Nil
             THEN [d |-> ZeroDigest, err |-> Errorf("parse fs digest", p.err)]
             ELSE [d |-> p.d, err |-> Nil]

\* resolveFromBackend without the write-through to disk.
resolveFromBackendNoWrite(r) ==
    IF r.clientErr # Nil
    THEN [d |-> ZeroDigest, err |-> Errorf("backend manager", r.clientErr), write |-> FALSE]
    ELSE IF r.err # Nil
    THEN IF r.err = ErrBlobNotFound
         THEN [d |-> ZeroDigest, err |-> ErrTagNotFound, write |-> FALSE]
         ELSE [d |-> ZeroDigest, err |-> Errorf("backend client", r.err), write |-> FALSE]
    ELSE LET p == ParseSHA256Digest(r.data)
         IN  IF p.err # Nil
             THEN [d |-> ZeroDigest, err |-> Errorf("parse backend digest", p.err), write |-> FALSE]
             ELSE [d |-> p.d, err |-> Nil, write |-> FALSE]

\* resolveFromBackend treating every download error as not-found.
resolveFromBackendAnyErrNotFound(r) ==
    IF r.clientErr # Nil
    THEN [d |-> ZeroDigest, err |-> Errorf("backend manager", r.clientErr), write |-> FALSE]
    ELSE IF r.err # Nil
    THEN [d |-> ZeroDigest, err |-> ErrTagNotFound, write |-> FALSE]
    ELSE LET p == ParseSHA256Digest(r.data)
         IN  IF p.err # Nil
             THEN [d |-> ZeroDigest, err |-> Errorf("parse backend digest", p.err), write |-> FALSE]
             ELSE [d |-> p.d, err |-> Nil, write |-> TRUE]

\* resolveFromBackend writing the unparsed payload through to disk.
resolveFromBackendWriteUnparsed(r) ==
    IF r.clientErr # Nil
    THEN [d |-> ZeroDigest, err |-> Errorf("backend manager", r.clientErr), write |-> FALSE]
    ELSE IF r.err # Nil
    THEN IF r.err = ErrBlobNotFound
         THEN [d |-> ZeroDigest, err |-> ErrTagNotFound, write |-> FALSE]
         ELSE [d |-> ZeroDigest, err |-> Errorf("backend client", r.err), write |-> FALSE]
    ELSE LET p == ParseSHA256Digest(r.data)
         IN  [d |-> p.d, err |-> Nil, write |-> TRUE]

\* resolveFromBackend up to the parse, given what the backend answered;
\* write tells whether the write-through to disk follows.
resolveFromBackend(r) ==
    IF r.clientErr # Nil
    THEN [d |-> ZeroDigest, err |-> Errorf("backend manager", r.clientErr), write |-> FALSE]
    ELSE IF r.err # Nil
    THEN IF r.err = ErrBlobNotFound
         THEN [d |-> ZeroDigest, err |-> ErrTagNotFound, write |-> FALSE]
         ELSE [d |-> ZeroDigest, err |-> Errorf("backend client", r.err), write |-> FALSE]
    ELSE LET p == ParseSHA256Digest(r.data)
         IN  IF p.err # Nil
             THEN [d |-> ZeroDigest, err |-> Errorf("parse backend digest", p.err), write |-> FALSE]
             ELSE [d |-> p.d, err |-> Nil, write |-> TRUE]

\* Get's loop without the break: every resolver runs.
GetContinuesNoBreak(err) == TRUE

\* Get's loop: a resolver's ErrTagNotFound moves on to the next resolver.
GetContinues(err) == err = ErrTagNotFound

\* Put's early returns: the error Put returns after each step, Nil to go on
\* (the Ignored variants drop the step's error).
PutWriteErrIgnored(err) == Nil

PutWriteErr(err) == IF err # Nil THEN Errorf("write tag to disk", err) ELSE Nil

\* Put failing when SetCacheFileMetadata reports that nothing changed.
PutMetaErrUnchanged(changed, err) ==
    IF err # Nil \/ ~changed THEN Errorf("set persist metadata", err) ELSE Nil

\* Put going on after a failed SetCacheFileMetadata.
PutMetaErrIgnored(changed, err) == Nil

\* The changed result of SetCacheFileMetadata is discarded.
PutMetaErr(changed, err) == IF err # Nil THEN Errorf("set persist metadata", err) ELSE Nil

PutAddErrIgnored(err) == Nil

PutAddErr(err) == IF err # Nil THEN Errorf("add write-back task", err) ELSE Nil

\* resolveFromBackend returning the error of its write-through.
GetWriteErrReturned(err) == IF err # Nil THEN Errorf("write tag to disk", err) ELSE Nil

\* The error of resolveFromBackend's write-through is logged, not returned.
GetWriteErr(err) == Nil

\* Put handing over a task without its delay.
PutTaskNoDelay(tag, delay) == NewTaskWithDelay(tag, tag, 0)

\* The task Put hands to the write-back manager.
PutTask(tag, delay) == NewTaskWithDelay(tag, tag, delay)

\* ------------------------------------------------------------------ actions
Init ==
    /\ local \in [Tags -> InitialFiles]
    /\ local0 = local
    /\ persist = [t \in Tags |-> FALSE]
    /\ backend \in [Tags -> InitialFiles]
    /\ backend0 = backend
    /\ queue = EmptyBag
    /\ pc = [p \in Procs |-> "idle"]
    /\ cur = [p \in Procs |-> NoCall]
    /\ hist = [p \in Procs |-> <<>>]
    /\ added = [t \in Tags |-> 0]
    /\ ncalls = 0

Goto(p, label, rec) ==
    /\ pc' = [pc EXCEPT ![p] = label]
    /\ cur' = [cur EXCEPT ![p] = rec]
    /\ UNCHANGED hist

Return(p, rec) ==
    /\ pc' = [pc EXCEPT ![p] = "idle"]
    /\ cur' = [cur EXCEPT ![p] = NoCall]
    /\ hist' = [hist EXCEPT ![p] = Append(@, rec)]

\* A caller enters Put(tag, d, writeBackDelay).
CallPut(p) ==
    /\ pc[p] = "idle"
    /\ ncalls < MaxCalls
    /\ ncalls' = ncalls + 1
    /\ \E t \in Tags, d \in Digests, delay \in Delays :
          Goto(p, "put_write",
               [NoCall EXCEPT !.op = "Put", !.tag = t, !.d = d, !.delay = delay])
    /\ UNCHANGED <<local, persist, backend, queue, local0, backend0, added>>

\* Put: s.writeTagToDisk(tag, d).
PutWriteTagToDisk(p) ==
    /\ pc[p] = "put_write"
    /\ \E fault \in BOOLEAN :
          LET c == cur[p]
              w == writeTagToDisk(local, c.tag, c.d, fault)
              e == PutWriteErr(w.err)
              c2 == [c EXCEPT !.pre = local[c.tag], !.createErr = w.raw,
                              !.nCreate = @ + 1]
          IN  /\ local' = w.fs
              /\ IF e # Nil
                 THEN Return(p, [c2 EXCEPT !.err = e])
                 ELSE Goto(p, "put_meta", c2)
    /\ UNCHANGED <<persist, backend, queue, local0, backend0, added, ncalls>>

\* Put: s.fs.SetCacheFileMetadata(tag, metadata.NewPersist(true)).
PutSetCacheFileMetadata(p) ==
    /\ pc[p] = "put_meta"
    /\ \E fault \in BOOLEAN :
          LET c == cur[p]
              m == SetCacheFileMetadata(local, persist, c.tag, fault)
              e == PutMetaErr(m.changed, m.err)
              c2 == [c EXCEPT !.metaErr = m.err, !.changed = m.changed,
                              !.nMeta = @ + 1]
          IN  /\ persist' = m.md
              /\ IF e # Nil
                 THEN Return(p, [c2 EXCEPT !.err = e])
                 ELSE Goto(p, "put_add", c2)
    /\ UNCHANGED <<local, backend, queue, local0, backend0, added, ncalls>>

\* Put: s.writeBackManager.Add(task), then return.
PutAdd(p) ==
    /\ pc[p] = "put_add"
    /\ \E fault \in BOOLEAN :
          LET c == cur[p]
              task == PutTask(c.tag, c.delay)
              a == Add(queue, task, fault)
              e == PutAddErr(a.err)
              c2 == [c EXCEPT !.addErr = a.err, !.task = task, !.nAdd = @ + 1]
          IN  /\ queue' = a.q
              /\ added' = IF a.err = Nil
                          THEN [added EXCEPT ![c.tag] = @ + 1]
                          ELSE added
              /\ Return(p, [c2 EXCEPT !.err = e])
    /\ UNCHANGED <<local, persist, backend, local0, backend0, ncalls>>

\* A Put on tag t has returned no error.
PutHasReturned(t) ==
    \E q \in Procs : \E i \in 1..Len(hist[q]) :
        hist[q][i].op = "Put" /\ hist[q][i].tag = t /\ hist[q][i].err = Nil

\* A caller enters Get(tag).
CallGet(p) ==
    /\ pc[p] = "idle"
    /\ ncalls < MaxCalls
    /\ ncalls' = ncalls + 1
    /\ \E t \in Tags :
          Goto(p, "get_disk",
               [NoCall EXCEPT !.op = "Get", !.tag = t,
                              !.afterPut = PutHasReturned(t)])
    /\ UNCHANGED <<local, persist, backend, queue, local0, backend0, added>>

\* Get: first resolver, s.resolveFromDisk(tag).
GetResolveFromDisk(p) ==
    /\ pc[p] = "get_disk"
    /\ \E fault \in {"none", "open", "copy"} :
          LET c == cur[p]
              f == GetCacheFileReader(local, c.tag, fault)
              r == resolveFromDisk(f)
              c2 == [c EXCEPT !.pre = local[c.tag], !.openErr = f.err,
                              !.copyErr = f.copyErr, !.nOpen = @ + 1]
          IN  \* a read fault needs a file to read
              /\ (fault # "none") => local[c.tag].exists
              /\ IF GetContinues(r.err)
                 THEN Goto(p, "get_backend", c2)
                 ELSE Return(p, [c2 EXCEPT !.res = r.d, !.err = r.err])
    /\ UNCHANGED <<local, persist, backend, queue, local0, backend0, added, ncalls>>

\* Get: second resolver, s.resolveFromBackend(tag), up to the parse.
GetResolveFromBackend(p) ==
    /\ pc[p] = "get_backend"
    /\ \E fault \in {"none", "client", "download"} :
          LET c == cur[p]
              b == Download(backend, c.tag, fault)
              r == resolveFromBackend(b)
              c2 == [c EXCEPT !.clientErr = b.clientErr, !.dlErr = b.err,
                              !.dlData = b.data, !.nBackend = @ + 1,
                              !.res = r.d]
          IN  IF r.write
              THEN Goto(p, "get_write", c2)
              ELSE Return(p, [c2 EXCEPT !.err = r.err])
    /\ UNCHANGED <<local, persist, backend, queue, local0, backend0, added, ncalls>>

\* The write-through marking the cache file it wrote as persist.
GetWriteThroughPersist(p) ==
    /\ pc[p] = "get_write"
    /\ \E fault \in BOOLEAN :
          LET c == cur[p]
              w == writeTagToDisk(local, c.tag, c.res, fault)
              c2 == [c EXCEPT !.createErr = w.raw, !.nCreate = @ + 1]
          IN  /\ local' = w.fs
              /\ persist' = IF w.err = Nil
                            THEN [persist EXCEPT ![c.tag] = TRUE]
                            ELSE persist
              /\ Return(p, [c2 EXCEPT !.err = GetWriteErr(w.err)])
    /\ UNCHANGED <<backend, queue, local0, backend0, added, ncalls>>

\* Get: the write-through at the end of resolveFromBackend; its error is
\* logged and dropped.
GetWriteThrough(p) ==
    /\ pc[p] = "get_write"
    /\ \E fault \in BOOLEAN :
          LET c == cur[p]
              w == writeTagToDisk(local, c.tag, c.res, fault)
              c2 == [c EXCEPT !.createErr = w.raw, !.nCreate = @ + 1]
          IN  /\ local' = w.fs
              /\ Return(p, [c2 EXCEPT !.err = GetWriteErr(w.err)])
    /\ UNCHANGED <<persist, backend, queue, local0, backend0, added, ncalls>>

\* The write-back manager executes an accepted task: it uploads the cache
\* file of the task's source key to the backend under the destination key.
ExecuteTask(t) ==
    /\ \E task \in BagToSet(queue) :
          /\ task.src = t
          /\ local[task.src].exists
          /\ backend' = [backend EXCEPT ![task.dst] = File(local[task.src].data)]
          /\ queue' = queue (-) SetToBag({task})
    /\ UNCHANGED <<local, persist, pc, cur, hist, local0, backend0, added, ncalls>>

Next ==
    \/ \E p \in Procs : CallPut(p)
    \/ \E p \in Procs : PutWriteTagToDisk(p)
    \/ \E p \in Procs : PutSetCacheFileMetadata(p)
    \/ \E p \in Procs : PutAdd(p)
    \/ \E p \in Procs : CallGet(p)
    \/ \E p \in Procs : GetResolveFromDisk(p)
    \/ \E p \in Procs : GetResolveFromBackend(p)
    \/ \E p \in Procs : GetWriteThrough(p)
    \/ \E t \in Tags : ExecuteTask(t)

Spec == Init /\ [][Next]_vars

\* The write-back manager eventually executes every accepted task.
FairSpec == Spec /\ \A t \in Tags : WF_vars(ExecuteTask(t))

\* ------------------------------------------------------- reading the history
\* The calls that have returned.
Returned == UNION {{hist[p][i] : i \in 1..Len(hist[p])} : p \in Procs}

\* The calls in progress and the calls that have returned.
AllCalls == Returned \cup {cur[p] : p \in {q \in Procs : pc[q] # "idle"}}

\* Pairs <<a, b>>: some caller's call a returned and its next call was b.
Consecutive ==
    UNION {{<<hist[p][i], hist[p][i + 1]>> : i \in 1..(Len(hist[p]) - 1)} : p \in Procs}

Puts == {c \in Returned : c.op = "Put"}
Gets == {c \in Returned : c.op = "Get"}

\* A collaborator failed during the call (EEXIST, ENOENT on a missing file
\* and ErrBlobNotFound are answers, not failures).
Faulty(c) ==
    \/ c.createErr = EIO
    \/ c.metaErr # Nil
    \/ c.addErr # Nil
    \/ c.openErr = EIO
    \/ c.copyErr # Nil
    \/ c.clientErr # Nil
    \/ c.dlErr = ErrBackendDown

\* Resolution of a tag from the cache files alone, in the current state.
LocalOnly(t) == resolveFromDisk(GetCacheFileReader(local, t, "none"))

\* The cache read of Get call g failed.
ReadFailed(g) == g.openErr = EIO \/ g.copyErr # Nil

\* ------------------------------------------------------------------- claims
\* C1 as stated: in any reachable state, a Put(t, d, delay) that returns no
\* error followed by Get(t) makes Get return d with no error.
C1_RoundTripAnyState ==
    \A pr \in Consecutive :
        LET a == pr[1]
            g == pr[2]
        IN  (a.op = "Put" /\ a.err = Nil /\ g.op = "Get" /\ g.tag = a.tag)
                => (g.err = Nil /\ g.res = a.d)

\* C1 amended: a Put(t, d, delay) that returns no error, made when the cache
\* held no file for t or a file already holding d, followed by a Get(t)
\* whose cache read does not fail, makes Get return d with no error; the
\* backend is not consulted, so the write-back task need not have run.
C1_RoundTripFresh ==
    \A pr \in Consecutive :
        LET a == pr[1]
            g == pr[2]
        IN  (/\ a.op = "Put" /\ a.err = Nil /\ g.op = "Get" /\ g.tag = a.tag
             /\ (~a.pre.exists \/ a.pre = File(DigestString(a.d)))
             /\ ~ReadFailed(g))
                => (g.err = Nil /\ g.res = a.d /\ g.nBackend = 0)

\* A Put created the file, the next Get returned its digest, and the
\* write-back task is still queued with the backend not holding the digest.
C1_Witness ==
    \E pr \in Consecutive :
        /\ pr[1].op = "Put" /\ pr[1].err = Nil /\ pr[1].createErr = Nil
        /\ pr[2].op = "Get" /\ pr[2].tag = pr[1].tag
        /\ pr[2].err = Nil /\ pr[2].res = pr[1].d
        /\ BagCardinality(queue) = 1
        /\ backend[pr[1].tag] # File(DigestString(pr[1].d))

\* The last call of caller p that returned is a successful Put(t, d, _).
PutReturned(p, t, d) ==
    /\ Len(hist[p]) > 0
    /\ LET a == hist[p][Len(hist[p])]
       IN  a.op = "Put" /\ a.tag = t /\ a.d = d /\ a.err = Nil

\* ... and that Put found no cache file for t, or one already holding d.
PutReturnedFresh(p, t, d) ==
    /\ PutReturned(p, t, d)
    /\ LET a == hist[p][Len(hist[p])]
       IN  ~a.pre.exists \/ a.pre = File(DigestString(d))

\* C2 as stated: after Put(t, d, delay) returns no error, with every accepted
\* task eventually executed, the backend eventually holds d for t.
C2_DurableEventually ==
    \A p \in Procs, t \in Tags, d \in Digests :
        PutReturned(p, t, d) ~> (backend[t] = File(DigestString(d)))

\* C2 amended: after a Put(t, d, delay) that found no cache file for t, or
\* one already holding d, returns no error, with every accepted task
\* eventually executed, the backend eventually holds d for t.
C2_DurableEventuallyFresh ==
    \A p \in Procs, t \in Tags, d \in Digests :
        PutReturnedFresh(p, t, d) ~> (backend[t] = File(DigestString(d)))

\* Such a Put returned, its task has been executed and the backend holds d.
C2_Witness ==
    \E p \in Procs, t \in Tags, d \in Digests :
        /\ PutReturnedFresh(p, t, d)
        /\ added[t] = 1
        /\ queue = EmptyBag
        /\ backend[t] = File(DigestString(d))

\* Get call g missed the cache and its backend download delivered digest d.
BackendHit(g, d) ==
    /\ g.op = "Get"
    /\ g.openErr = ENOENT
    /\ g.nBackend = 1 /\ g.clientErr = Nil /\ g.dlErr = Nil
    /\ ParseSHA256Digest(g.dlData) = [d |-> d, err |-> Nil]

\* C3 as stated: if t has no cache file and the backend holds d for t, Get(t)
\* returns d with no error and any later resolution of t from the cache alone
\* also returns d.
C3_FallbackWriteThrough ==
    \A g \in Gets : \A d \in Digests :
        BackendHit(g, d) =>
            /\ g.err = Nil /\ g.res = d
            /\ LocalOnly(g.tag) = [d |-> d, err |-> Nil]

\* C3 amended: if t has no cache file and the backend download for t delivers
\* d, Get(t) returns d with no error; and unless the write-through create
\* fails or finds a file created in the meantime by a concurrent call, any
\* later resolution of t from the cache alone also returns d.
C3_FallbackWriteThroughCreated ==
    \A g \in Gets : \A d \in Digests :
        BackendHit(g, d) =>
            /\ g.err = Nil /\ g.res = d
            /\ (g.createErr \notin {EIO, EEXIST}
                    => LocalOnly(g.tag) = [d |-> d, err |-> Nil])

\* A Get missed the cache, got d from the backend and created the cache file,
\* from which d now resolves.
C3_Witness ==
    \E g \in Gets : \E d \in Digests :
        /\ BackendHit(g, d)
        /\ ~g.pre.exists
        /\ g.nCreate = 1 /\ g.createErr = Nil
        /\ LocalOnly(g.tag) = [d |-> d, err |-> Nil]

\* The cache reported no file and the backend download reported blob-not-found.
AbsentEverywhere(g) ==
    /\ g.openErr = ENOENT
    /\ g.nBackend = 1 /\ g.clientErr = Nil /\ g.dlErr = ErrBlobNotFound

IsDigest(d) == ParseSHA256Digest(DigestString(d)) = [d |-> d, err |-> Nil]

\* C4: Get(t) returns ErrTagNotFound exactly when the cache reports t as not
\* existing and the backend download reports blob-not-found; every other Get
\* returns a digest with no error, or an error other than ErrTagNotFound.
C4_TrueNotFound ==
    \A g \in Gets :
        /\ (g.err = ErrTagNotFound) <=> AbsentEverywhere(g)
        /\ (g.err = Nil) => IsDigest(g.res)
        /\ (g.err # Nil) => g.res = ZeroDigest

\* A Get absent from both tiers returned ErrTagNotFound.
C4_Witness ==
    \E g \in Gets : AbsentEverywhere(g) /\ g.err = ErrTagNotFound

\* C5: an error of a tier other than not-found ends Get at once with an
\* error that is not ErrTagNotFound: a failed cache read never reaches the
\* backend, a failed client selection or download never ends in
\* ErrTagNotFound and is not followed by a write to the cache.
C5_FatalVersusFallThrough ==
    \A g \in Gets :
        /\ g.openErr = EIO =>
              g.err = Errorf("fs", g.openErr) /\ g.nBackend = 0
        /\ g.copyErr # Nil =>
              g.err = Errorf("copy from fs", g.copyErr) /\ g.nBackend = 0
        /\ g.clientErr # Nil =>
              g.err = Errorf("backend manager", g.clientErr) /\ g.nCreate = 0
        /\ g.dlErr = ErrBackendDown =>
              g.err = Errorf("backend client", g.dlErr) /\ g.nCreate = 0
        /\ Faulty(g) /\ g.nCreate = 0 =>
              g.err \notin {Nil, ErrTagNotFound} /\ g.res = ZeroDigest

\* A Get ended on a failed cache read while the backend held a valid digest
\* for its tag.
C5_Witness ==
    \E g \in Gets :
        /\ ReadFailed(g) /\ g.err # Nil /\ g.nBackend = 0
        /\ backend[g.tag].exists
        /\ ParseSHA256Digest(backend[g.tag].data).err = Nil

\* The cache file Get call g found does not hold a digest.
Malformed(g) == g.pre.exists /\ ParseSHA256Digest(g.pre.data).err # Nil

\* C6: if the cache file of t exists but does not hold a valid digest, Get(t)
\* fails with the parse error, which is not ErrTagNotFound, and never
\* consults the backend, also when the backend holds a valid digest for t.
C6_MalformedLocal ==
    \A g \in Gets :
        Malformed(g) =>
            /\ g.err \notin {Nil, ErrTagNotFound}
            /\ g.nBackend = 0
            /\ ~ReadFailed(g) =>
                  g.err = Errorf("parse fs digest", ParseSHA256Digest(g.pre.data).err)

\* A Get read a malformed cache file while the backend held a valid digest.
C6_Witness ==
    \E g \in Gets :
        /\ Malformed(g) /\ ~ReadFailed(g) /\ g.err # Nil
        /\ backend[g.tag].exists
        /\ ParseSHA256Digest(backend[g.tag].data).err = Nil

\* Caller's consecutive calls a, b are Put(t, d, _) twice, no collaborator
\* failing.
SamePutTwice(a, b) ==
    /\ a.op = "Put" /\ b.op = "Put"
    /\ a.tag = b.tag /\ a.d = b.d
    /\ ~Faulty(a) /\ ~Faulty(b)

\* C7 as stated: Put(t, d, delay) twice, collaborators not failing, returns
\* no error both times and leaves one readable cache file for t holding d.
C7_IdempotentPut ==
    \A pr \in Consecutive :
        SamePutTwice(pr[1], pr[2]) =>
            /\ pr[1].err = Nil /\ pr[2].err = Nil
            /\ local[pr[1].tag] = File(DigestString(pr[1].d))
            /\ LocalOnly(pr[1].tag) = [d |-> pr[1].d, err |-> Nil]

\* C7 amended: Put(t, d, delay) twice, collaborators not failing, returns no
\* error both times and leaves one cache file for t; it holds d, and
\* resolves to d, if the cache held no file for t before the first call, and
\* it holds what it held before otherwise.
C7_IdempotentPutFresh ==
    \A pr \in Consecutive :
        SamePutTwice(pr[1], pr[2]) =>
            /\ pr[1].err = Nil /\ pr[2].err = Nil
            /\ local[pr[1].tag].exists
            /\ IF pr[1].pre.exists
               THEN local[pr[1].tag] = pr[1].pre
               ELSE /\ local[pr[1].tag] = File(DigestString(pr[1].d))
                    /\ LocalOnly(pr[1].tag) = [d |-> pr[1].d, err |-> Nil]

\* The first Put created the file, the second found it and both succeeded.
C7_Witness ==
    \E pr \in Consecutive :
        /\ SamePutTwice(pr[1], pr[2])
        /\ pr[1].createErr = Nil /\ pr[2].createErr = EEXIST
        /\ pr[1].err = Nil /\ pr[2].err = Nil
        /\ local[pr[1].tag] = File(DigestString(pr[1].d))

\* C8: if the write-back manager rejects the task, Put returns an error, the
\* cache file of t and its persist flag stay in place (the file holds d when
\* this call created it), and the caller's next Get(t), its read not
\* failing, resolves t from the cache without the backend.
C8_EnqueueFailureNoRollback ==
    /\ \A a \in Puts :
          a.addErr # Nil =>
              /\ a.err = Errorf("add write-back task", a.addErr)
              /\ local[a.tag].exists
              /\ persist[a.tag]
              /\ a.createErr = Nil => local[a.tag] = File(DigestString(a.d))
    /\ \A pr \in Consecutive :
          LET a == pr[1]
              g == pr[2]
          IN  (/\ a.op = "Put" /\ a.addErr # Nil
               /\ g.op = "Get" /\ g.tag = a.tag /\ ~ReadFailed(g))
                  => /\ g.nBackend = 0
                     /\ a.createErr = Nil => (g.err = Nil /\ g.res = a.d)

\* A Put created the file, had its task rejected, and the next Get returned
\* the digest while no task was ever accepted.
C8_Witness ==
    \E pr \in Consecutive :
        /\ pr[1].op = "Put" /\ pr[1].addErr # Nil /\ pr[1].createErr = Nil
        /\ pr[1].err # Nil
        /\ pr[2].op = "Get" /\ pr[2].err = Nil /\ pr[2].res = pr[1].d
        /\ added[pr[1].tag] = 0

\* All calls made so far have returned, there were at least two, and all
\* were Puts on t with no collaborator failing.
OnlyPutsOn(t) ==
    /\ \A p \in Procs : pc[p] = "idle"
    /\ ncalls >= 2
    /\ \A c \in Returned : c.op = "Put" /\ c.tag = t /\ ~Faulty(c)

\* C9 as stated: after any interleaving of Puts on t, no collaborator
\* failing, every call returned no error, the cache file of t holds one of
\* the supplied digests, the persist flag is set and one task per call was
\* accepted.
C9_ConcurrentPutsConverge ==
    \A t \in Tags :
        OnlyPutsOn(t) =>
            /\ \A c \in Returned : c.err = Nil
            /\ local[t].exists
            /\ local[t].data \in {DigestString(c.d) : c \in Returned}
            /\ persist[t]
            /\ added[t] = ncalls

\* C9 amended: ... the cache file of t holds one of the supplied digests if
\* the cache held no file for t before the calls and what it held before
\* otherwise, the persist flag is set and one task per call was accepted.
C9_ConcurrentPutsConvergeFresh ==
    \A t \in Tags :
        OnlyPutsOn(t) =>
            /\ \A c \in Returned : c.err = Nil
            /\ local[t].exists
            /\ IF local0[t].exists
               THEN local[t] = local0[t]
               ELSE local[t].data \in {DigestString(c.d) : c \in Returned}
            /\ persist[t]
            /\ added[t] = ncalls
            /\ BagCardinality(queue) <= added[t]

\* Two callers' Puts with different digests overlapped: the one that created
\* the file found the persist flag already set by the other.
C9_Witness ==
    \E t \in Tags :
        /\ OnlyPutsOn(t)
        /\ ~local0[t].exists
        /\ Len(hist["p1"]) = 1 /\ Len(hist["p2"]) = 1
        /\ hist["p1"][1].d # hist["p2"][1].d
        /\ \E c \in Returned : c.createErr = Nil /\ ~c.changed
        /\ added[t] = 2

\* C10: Put's steps run in order and a failed step stops the later ones: a
\* failed create (other than already-exists) returns an error with no
\* metadata update and no enqueue, a failed metadata update returns an error
\* with no enqueue; the persist flag is set only by a Put's metadata update.
C10_PutStepsOrdered ==
    /\ \A c \in AllCalls :
          c.op = "Put" =>
              /\ c.nCreate <= 1 /\ c.nMeta <= c.nCreate /\ c.nAdd <= c.nMeta
              /\ c.createErr = EIO => (c.nMeta = 0 /\ c.nAdd = 0 /\ c \in Returned)
              /\ c.metaErr # Nil => (c.nAdd = 0 /\ c \in Returned)
    /\ \A c \in Puts :
          /\ c.createErr = EIO => c.err = Errorf("write tag to disk", c.createErr)
          /\ c.metaErr # Nil => c.err = Errorf("set persist metadata", c.metaErr)
    /\ \A t \in Tags :
          persist[t] =>
              \E c \in AllCalls : c.op = "Put" /\ c.tag = t /\ c.nMeta = 1 /\ c.metaErr = Nil

\* One Put failed in the create and another in the metadata update; the
\* persist flag is unset and no task was accepted.
C10_Witness ==
    /\ \E c \in Puts : c.createErr = EIO /\ c.err # Nil
    /\ \E c \in Puts : c.metaErr # Nil /\ c.err # Nil
    /\ \A t \in Tags : ~persist[t] /\ added[t] = 0

\* Put call a found a cache file for its tag holding another digest, and no
\* collaborator failed.
PutOnOtherDigest(a) ==
    /\ a.op = "Put" /\ ~Faulty(a)
    /\ a.pre.exists
    /\ ParseSHA256Digest(a.pre.data).err = Nil
    /\ ParseSHA256Digest(a.pre.data).d # a.d

\* No step changes or removes an existing cache file.
LocalKept == \A t \in Tags : local[t].exists => local'[t] = local[t]

\* C11: Put(t, d2, delay) on a tag cached with d1 # d2 returns no error,
\* leaves the cache file at d1, sets the persist flag and enqueues a task;
\* and once a cache file exists, no step of Put or Get changes or removes it.
C11_PutKeepsOldContent ==
    /\ [](\A a \in Puts :
            PutOnOtherDigest(a) =>
                /\ a.err = Nil
                /\ local[a.tag] = a.pre
                /\ persist[a.tag]
                /\ a.nMeta = 1 /\ a.nAdd = 1 /\ a.task = PutTask(a.tag, a.delay))
    /\ [][LocalKept]_vars

\* A Put with another digest returned no error on a cached tag: the file is
\* as it was, the flag is set and the task accepted.
C11_Witness ==
    \E a \in Puts :
        /\ PutOnOtherDigest(a) /\ a.err = Nil
        /\ local[a.tag] = a.pre /\ local[a.tag] = local0[a.tag]
        /\ persist[a.tag]
        /\ added[a.tag] = 1

\* The Puts on t that returned no error, as positions in the history.
GoodPuts(t) ==
    {pi \in Procs \X (1..MaxCalls) :
        /\ pi[2] <= Len(hist[pi[1]])
        /\ hist[pi[1]][pi[2]].op = "Put"
        /\ hist[pi[1]][pi[2]].tag = t
        /\ hist[pi[1]][pi[2]].err = Nil}

\* C12: a Put makes at most one create, one metadata update and one enqueue
\* and never reads the cache or accesses the backend; a Put that returns no
\* error made each once and enqueued the single task (t, t, delay), also
\* when the cache file already existed.
C12_PutSideEffects ==
    /\ \A c \in AllCalls :
          c.op = "Put" =>
              /\ c.nCreate <= 1 /\ c.nMeta <= 1 /\ c.nAdd <= 1
              /\ c.nOpen = 0 /\ c.nBackend = 0
    /\ \A a \in Puts :
          a.err = Nil =>
              /\ a.nCreate = 1 /\ a.nMeta = 1 /\ a.nAdd = 1
              /\ a.task = [src |-> a.tag, dst |-> a.tag, delay |-> a.delay]
    /\ \A t \in Tags : added[t] = Cardinality(GoodPuts(t))

\* A Put on a tag whose cache file already existed returned no error and its
\* task (t, t, delay) is queued.
C12_Witness ==
    \E a \in Puts :
        /\ a.err = Nil /\ a.createErr = EEXIST
        /\ a.delay \in Delays
        /\ BagIn([src |-> a.tag, dst |-> a.tag, delay |-> a.delay], queue)

\* This step is caller p returning from a Get whose backend download
\* delivered digest d and whose write-through create failed.
WriteFailedReturn(p, d) ==
    /\ pc[p] = "get_write" /\ pc'[p] = "idle"
    /\ BackendHit(hist'[p][Len(hist'[p])], d)
    /\ hist'[p][Len(hist'[p])].createErr = EIO

\* Another caller's call on tag t created the cache file.
CreatedByOther(p, t) ==
    \E q \in Procs \ {p} :
        \/ \E i \in 1..Len(hist[q]) :
              hist[q][i].tag = t /\ hist[q][i].nCreate = 1 /\ hist[q][i].createErr = Nil
        \/ cur[q].tag = t /\ cur[q].nCreate = 1 /\ cur[q].createErr = Nil

\* C13 as stated: when the download for t delivers d but the write of d to
\* the cache fails, Get(t) returns d with no error and the cache is left
\* without a file for t.
C13_BestEffortWriteThrough ==
    [][\A p \in Procs, d \in Digests :
          WriteFailedReturn(p, d) =>
              LET g == hist'[p][Len(hist'[p])]
              IN  /\ g.err = Nil /\ g.res = d
                  /\ ~local'[g.tag].exists]_vars

\* C13 amended: ... Get(t) returns d with no error and the failed write
\* leaves the cache as it was: without a file for t, unless a concurrent
\* call created one after Get's cache miss; the caller's next Get(t)
\* consults the backend again unless it finds such a file.
C13_BestEffortWriteThroughAlone ==
    /\ [][\A p \in Procs, d \in Digests :
            WriteFailedReturn(p, d) =>
                LET g == hist'[p][Len(hist'[p])]
                IN  /\ g.err = Nil /\ g.res = d
                    /\ local' = local
                    /\ local'[g.tag].exists => CreatedByOther(p, g.tag)]_vars
    /\ [](\A pr \in Consecutive :
            (/\ pr[1].op = "Get" /\ pr[1].createErr = EIO
             /\ pr[2].op = "Get" /\ pr[2].tag = pr[1].tag)
                => (pr[2].pre.exists \/ pr[2].nBackend = 1))

\* A Get returned the backend's digest although its write-through failed,
\* the cache has no file for the tag and the next Get went to the backend.
C13_Witness ==
    \E pr \in Consecutive : \E d \in Digests :
        /\ BackendHit(pr[1], d) /\ pr[1].createErr = EIO
        /\ pr[1].err = Nil /\ pr[1].res = d
        /\ pr[2].op = "Get" /\ pr[2].nBackend = 1
        /\ ~local[pr[1].tag].exists

\* Get call g found a cache file holding a valid digest and read it.
LocalHit(g) ==
    /\ g.op = "Get"
    /\ g.pre.exists /\ ParseSHA256Digest(g.pre.data).err = Nil
    /\ ~ReadFailed(g)

\* This step is a step of a Get that found a valid digest in the cache.
LocalHitStep ==
    \E p \in Procs :
        /\ pc[p] = "get_disk" /\ pc'[p] # "get_disk"
        /\ local[cur[p].tag].exists
        /\ ParseSHA256Digest(local[cur[p].tag].data).err = Nil
        /\ Len(hist'[p]) > Len(hist[p])
        /\ ~ReadFailed(hist'[p][Len(hist'[p])])

\* C14: when the cache holds a valid digest d for t, Get(t) returns d with
\* no error and without a backend access or any other collaborator call,
\* whatever the backend holds, and leaves cache, backend and write-back
\* manager unchanged.
C14_LocalHitWins ==
    /\ [](\A g \in AllCalls :
            LocalHit(g) =>
                /\ g \in Returned
                /\ g.err = Nil
                /\ g.res = ParseSHA256Digest(g.pre.data).d
                /\ g.nOpen = 1 /\ g.nBackend = 0
                /\ g.nCreate = 0 /\ g.nMeta = 0 /\ g.nAdd = 0)
    /\ [][LocalHitStep => UNCHANGED <<local, persist, backend, queue, added>>]_vars

\* A Get returned the cached digest while the backend held another digest.
C14_Witness ==
    \E g \in Gets :
        /\ LocalHit(g) /\ g.err = Nil /\ g.nBackend = 0
        /\ backend[g.tag].exists
        /\ ParseSHA256Digest(backend[g.tag].data).err = Nil
        /\ ParseSHA256Digest(backend[g.tag].data).d # g.res

\* Get call g missed the cache and its download delivered non-digest bytes.
BackendMalformed(g) ==
    /\ g.op = "Get"
    /\ g.openErr = ENOENT
    /\ g.nBackend = 1 /\ g.clientErr = Nil /\ g.dlErr = Nil
    /\ ParseSHA256Digest(g.dlData).err # Nil

\* C15: if t is absent locally and the download succeeds with content that
\* is not a valid digest, Get(t) returns the parse error, which is not
\* ErrTagNotFound, and writes nothing to the cache.
C15_MalformedBackend ==
    \A g \in AllCalls :
        BackendMalformed(g) =>
            /\ g \in Returned
            /\ g.err = Errorf("parse backend digest", ParseSHA256Digest(g.dlData).err)
            /\ g.err # ErrTagNotFound
            /\ g.res = ZeroDigest
            /\ g.nCreate = 0

\* A Get returned the parse error of a malformed backend payload and the
\* cache still has no file for the tag.
C15_Witness ==
    \E g \in Gets :
        /\ BackendMalformed(g) /\ g.err # Nil
        /\ ~local[g.tag].exists

\* C16: every task the write-back manager holds for tag t was enqueued after
\* the cache file of t existed and its persist flag was set: a queued task
\* never refers to a tag without cache file or with the flag unset, and the
\* Put that enqueued it had made its create and its metadata update.
C16_TaskImpliesPersisted ==
    /\ \A task \in BagToSet(queue) :
          /\ task.src \in Tags /\ task.dst = task.src
          /\ local[task.src].exists
          /\ persist[task.src]
    /\ \A c \in AllCalls :
          c.nAdd = 1 =>
              /\ c.op = "Put"
              /\ c.nCreate = 1 /\ c.createErr \in {Nil, EEXIST}
              /\ c.nMeta = 1 /\ c.metaErr = Nil
              /\ local[c.tag].exists /\ persist[c.tag]

\* A task is queued for a tag whose cache file exists with the flag set.
C16_Witness ==
    \E task \in BagToSet(queue) :
        /\ local[task.src].exists
        /\ persist[task.src]
        /\ added[task.src] >= 1

\* This step is a step of a Get call.
GetStep ==
    \E p \in Procs :
        /\ pc'[p] # pc[p]
        /\ cur[p].op = "Get" \/ cur'[p].op = "Get"

\* C17: no step of a Get sets the persist flag, enqueues a task or writes to
\* the backend; flag and tasks come from Puts only, so a cache file created
\* by Get's write-through has neither unless a Put on the tag adds them.
C17_GetNeverSchedules ==
    /\ [][GetStep => UNCHANGED <<persist, queue, added, backend>>]_vars
    /\ [](\A c \in AllCalls :
            c.op = "Get" => c.nMeta = 0 /\ c.nAdd = 0 /\ c.task = NoTask)
    /\ [](\A t \in Tags :
            (\A c \in AllCalls : c.tag = t => c.op = "Get") =>
                /\ ~persist[t]
                /\ added[t] = 0
                /\ backend[t] = backend0[t]
                /\ \A task \in BagToSet(queue) : task.src # t)

\* A Get's write-through created the cache file; it has no persist flag and
\* no task.
C17_Witness ==
    \E g \in Gets :
        /\ g.nCreate = 1 /\ g.createErr = Nil
        /\ local[g.tag].exists
        /\ ~persist[g.tag]
        /\ added[g.tag] = 0 /\ queue = EmptyBag

\* The Put calls started so far, as callers and positions.
PutCalls ==
    {pi \in Procs \X (1..MaxCalls) :
        pi[2] <= Len(hist[pi[1]]) /\ hist[pi[1]][pi[2]].op = "Put"}
    \cup {pi \in Procs \X {0} : pc[pi[1]] # "idle" /\ cur[pi[1]].op = "Put"}

\* Tag t was absent from cache and backend at the start, all calls so far
\* are on t, at most one of them is a Put, and no collaborator has failed.
GetRacesOnePut(t) ==
    /\ ~local0[t].exists /\ ~backend0[t].exists
    /\ \A c \in AllCalls : c.tag = t /\ ~Faulty(c)
    /\ Cardinality(PutCalls) <= 1

\* C18: for any interleaving of Gets on t with a single Put(t, d, delay), t
\* initially absent from cache and backend and no collaborator failing, a
\* Get returns d with no error or ErrTagNotFound, and a Get that starts
\* after the Put has returned returns d.
C18_GetRacingPut ==
    \A t \in Tags :
        GetRacesOnePut(t) =>
            \A g \in Gets :
                /\ \/ g.err = ErrTagNotFound /\ g.res = ZeroDigest
                   \/ /\ g.err = Nil
                      /\ \E a \in AllCalls : a.op = "Put" /\ g.res = a.d
                /\ g.afterPut =>
                      /\ g.err = Nil
                      /\ \E a \in Puts : g.res = a.d /\ a.err = Nil

\* A Get missed the cache before the Put created the file and then found the
\* Put's digest, already written back, in the backend.
C18_Witness ==
    \E t \in Tags :
        /\ GetRacesOnePut(t)
        /\ \E g \in Gets : \E a \in Puts :
              /\ g.openErr = ENOENT /\ g.nBackend = 1 /\ g.dlErr = Nil
              /\ g.err = Nil /\ g.res = a.d
              /\ a.err = Nil /\ ~a.pre.exists
====
